---- MODULE Spec2Model ----
(***************************************************************************)
(* Model of app.py, the Streamlit script of sf6_network_analysis.          *)
(*                                                                         *)
(* One script run is the sequence                                          *)
(*   carregar (cached load) -> sidebar -> gate -> tab_metricas ->          *)
(*   tab_centralidade -> tab_rede,                                         *)
(* and an uncaught exception ends the run where it is raised.  Streamlit   *)
(* reruns the script from the top; the st.cache_data store outlives runs.  *)
(*                                                                         *)
(* Numbers: every score is an exact fraction <<num, den>> with den > 0.    *)
(* Optional Python values (None or a value) are sequences of length 0/1.   *)
(* Library results whose algorithm is not in app.py (closeness,            *)
(* betweenness, eigenvector scores) are inputs chosen from bounded sets.   *)
(***************************************************************************)
EXTENDS Integers, Sequences, FiniteSets

VARIABLES
    arq_completa,      \* contents of rede_completa.graphml
    arq_visualizacao,  \* contents of rede_visualizacao.graphml
    nx_scores,         \* what networkx answers for the full graph: node -> score index
    nx_estrito,        \* whether the installed networkx refuses the eigenvector
                       \* centrality of a graph that is not connected
    posicoes,          \* slider positions the user picks from in this session
    cache,             \* st.cache_data store of carregar_e_processar_dados
    pc,                \* position of the running script
    G_completo,        \* module global, None = <<>>
    G_visualizacao,    \* module global, None = <<>>
    centrality_df,     \* module global, None = <<>>
    k_slider,          \* value of the sidebar slider in this run
    metricas,          \* st.metric fields emitted in this run: name -> value
    rankings,          \* st.dataframe rankings emitted in this run: metric -> rows
    net,               \* pyvis Network of this run: [nodes, edges, physics, html]
    mensagens,         \* st.error / st.warning boxes emitted in this run
    erro,              \* uncaught exception that ended this run ("" = none)
    execucoes,         \* number of script runs started
    corpo,             \* number of executions of the cached function's body
    calculos           \* number of times the centrality computation was entered

vars == << arq_completa, arq_visualizacao, nx_scores, nx_estrito, posicoes, cache, pc,
           G_completo, G_visualizacao, centrality_df, k_slider, metricas, rankings, net, mensagens, erro,
           execucoes, corpo, calculos >>

----------------------------------------------------------------------------
(* Bounds of the model *)

MaxRuns == 2
MaxScore == 1
MaxRows == 6

(* Program constants *)

k_min == 5
k_default == 10
k_max == 20

palette == << "#e6194b", "#3cb44b", "#ffe119", "#4363d8",
              "#f58231", "#911eb4", "#46f0f0", "#f032e6" >>

Metrics == << "Degree", "Betweenness", "Eigenvector", "Closeness" >>

----------------------------------------------------------------------------
(* Exact fractions *)

Frac(n, d) == << n, d >>

FracLeq(a, b) == a[1] * b[2] <= b[1] * a[2]

FracEq(a, b) == a[1] * b[2] = b[1] * a[2]

Range(s) == { s[i] : i \in DOMAIN s }

----------------------------------------------------------------------------
(* networkx graphs: [nodes: sequence in file order, edges: set of directed *)
(* pairs, community: node attribute, defined on the nodes that carry it]   *)

NoGraph == [nodes |-> << >>, edges |-> {}, community |-> << >>]

number_of_nodes(g) == Len(g.nodes)

number_of_edges(g) == Cardinality(g.edges)

\* nx.Graph(g): direction dropped, self-loops kept
Simple(g) == { {e[1], e[2]} : e \in g.edges }

\* G.degree of the undirected graph: a self-loop counts twice
GraphDegree(g, u) ==
    Cardinality({ e \in Simple(g) : u \in e /\ e # {u} })
        + (IF {u} \in Simple(g) THEN 2 ELSE 0)

Reversed(g) == { << e[2], e[1] >> : e \in g.edges }

\* the adjacency of nx.Graph(g) as a symmetric relation
Undirected(g) == g.edges \cup Reversed(g)

RECURSIVE Ball(_, _, _)
Ball(R, u, k) ==
    IF k = 0 THEN {u}
    ELSE LET B == Ball(R, u, k - 1)
         IN  B \cup { p[2] : p \in { q \in R : q[1] \in B } }

Reach(g, R, u) == Ball(R, u, Len(g.nodes))

is_connected(g) ==
    \A u \in Range(g.nodes) : Reach(g, Undirected(g), u) = Range(g.nodes)

SetMax(S) == CHOOSE x \in S : \A y \in S : y <= x

\* the eccentricity of u in a connected graph: the least radius whose ball is everything
Eccentricity(R, nodes, u) ==
    CHOOSE k \in 0..Cardinality(nodes) :
        /\ Ball(R, u, k) = nodes
        /\ k = 0 \/ Ball(R, u, k - 1) # nodes

\* nx.diameter of a connected undirected graph: the largest eccentricity
diameter(g) ==
    LET R == Undirected(g)
    IN  SetMax({ Eccentricity(R, Range(g.nodes), u) : u \in Range(g.nodes) })

number_weakly_connected_components(g) ==
    Cardinality({ Reach(g, Undirected(g), u) : u \in Range(g.nodes) })

number_strongly_connected_components(g) ==
    Cardinality({ Reach(g, g.edges, u) \cap Reach(g, Reversed(g), u) : u \in Range(g.nodes) })

\* the density of an undirected graph: 2 m / (n (n - 1))
density_undirected(g) ==
    IF number_of_edges(g) = 0 \/ number_of_nodes(g) <= 1 THEN Frac(0, 1)
    ELSE Frac(2 * number_of_edges(g), number_of_nodes(g) * (number_of_nodes(g) - 1))

\* nx.density of a directed graph: m / (n (n - 1)), and 0 when m = 0 or n <= 1
density(g) ==
    IF number_of_edges(g) = 0 \/ number_of_nodes(g) <= 1 THEN Frac(0, 1)
    ELSE Frac(number_of_edges(g), number_of_nodes(g) * (number_of_nodes(g) - 1))

\* nx.degree_centrality: 1 for every node when n <= 1, else degree / (n - 1)
degree_centrality(g, u) ==
    IF number_of_nodes(g) <= 1 THEN Frac(1, 1)
    ELSE Frac(GraphDegree(g, u), number_of_nodes(g) - 1)

----------------------------------------------------------------------------
(* The centrality table (a pandas DataFrame): a sequence of rows            *)
(* [Jogador, Degree, Closeness, Betweenness, Eigenvector] in node order.    *)

Score(p) == Frac(p, MaxScore)

\* the three library-computed scores of one node, drawn together from a
\* small family indexed by p \in 0..MaxScore
LibRow(p) ==
    [ Closeness   |-> Score(MaxScore - p),
      Betweenness |-> Score((p + 1) % (MaxScore + 1)),
      Eigenvector |-> Score(p) ]

TableRow(j, deg, p) ==
    [ Jogador     |-> j,
      Degree      |-> deg,
      Closeness   |-> LibRow(p).Closeness,
      Betweenness |-> LibRow(p).Betweenness,
      Eigenvector |-> LibRow(p).Eigenvector ]

\* pd.DataFrame({...}) of lines 42-48: one row per node of nx.Graph(g_completo)
CentralityTable(g, lib) ==
    [ i \in 1..Len(g.nodes) |->
        TableRow(g.nodes[i], degree_centrality(g, g.nodes[i]), lib[g.nodes[i]]) ]

\* nx.eigenvector_centrality_numpy: NetworkXPointlessConcept on the null graph;
\* AmbiguousSolution on a graph that is not connected, in the releases that
\* check it; scipy's eigs(k=1) refuses a sparse matrix with fewer than 3 rows
EigenvectorRaises(g, estrito) ==
    IF number_of_nodes(g) = 0 THEN "NetworkXPointlessConcept"
    ELSE IF estrito /\ ~ is_connected(g) THEN "AmbiguousSolution"
    ELSE IF number_of_nodes(g) < 3 THEN "TypeError"
    ELSE ""

None3 == << << >>, << >>, << >> >>

Returned(ret, calc) == [raised |-> "", ret |-> ret, calc |-> calc]

Raised(exc, calc) == [raised |-> exc, ret |-> None3, calc |-> calc]

\* A load that tolerates a failed view graph: the table is still computed from
\* the full graph and handed out with a missing view.
carregar_tolerando_visualizacao(completa, visualizacao, lib, estrito) ==
    IF completa.estado = "ok" /\ EigenvectorRaises(completa.grafo, estrito) = ""
    THEN Returned(<< << completa.grafo >>,
                     IF visualizacao.estado = "ok" THEN << visualizacao.grafo >> ELSE << >>,
                     << CentralityTable(completa.grafo, lib) >> >>, 1)
    ELSE Returned(None3, 0)

\* The body of carregar_e_processar_dados (lines 26-50).  Only FileNotFoundError
\* is caught; any other exception leaves the function.  lib: the scores
\* networkx computes for the full graph; estrito: see nx_estrito.
carregar_e_processar_dados(completa, visualizacao, lib, estrito) ==
    IF completa.estado = "missing" THEN Returned(None3, 0)
    ELSE IF completa.estado = "malformed" THEN Raised("ParseError", 0)
    ELSE IF visualizacao.estado = "missing" THEN Returned(None3, 0)
    ELSE IF visualizacao.estado = "malformed" THEN Raised("ParseError", 0)
    ELSE IF EigenvectorRaises(completa.grafo, estrito) # ""
         THEN Raised(EigenvectorRaises(completa.grafo, estrito), 1)
    ELSE Returned(<< << completa.grafo >>, << visualizacao.grafo >>,
                     << CentralityTable(completa.grafo, lib) >> >>, 1)

----------------------------------------------------------------------------
(* Per-run state *)

EmptyNet == [nodes |-> << >>, edges |-> {}, physics |-> FALSE, html |-> FALSE]

NoOutput == << >>

RunReset ==
    /\ G_completo' = << >>
    /\ G_visualizacao' = << >>
    /\ centrality_df' = << >>
    /\ k_slider' = 0
    /\ metricas' = NoOutput
    /\ rankings' = NoOutput
    /\ net' = EmptyNet
    /\ mensagens' = {}
    /\ erro' = ""

\* an uncaught exception: Streamlit stops the script run
Abort(exc) ==
    /\ pc' = "aborted"
    /\ erro' = exc

----------------------------------------------------------------------------
(* Line 53 under @st.cache_data (line 21): a stored return value is reused, *)
(* a raised exception stores nothing.  st.error inside the cached function  *)
(* is replayed on a cache hit.                                              *)

Carregar ==
    /\ pc = "carregar"
    /\ LET r == IF cache # << >> THEN Returned(cache[1], 0)
                ELSE carregar_e_processar_dados(arq_completa, arq_visualizacao,
                                                nx_scores, nx_estrito)
       IN  /\ corpo' = IF cache # << >> THEN corpo ELSE corpo + 1
           /\ calculos' = calculos + r.calc
           /\ IF r.raised # ""
              THEN /\ Abort(r.raised)
                   /\ UNCHANGED << cache, G_completo, G_visualizacao, centrality_df, mensagens >>
              ELSE /\ cache' = << r.ret >>
                   /\ G_completo' = r.ret[1]
                   /\ G_visualizacao' = r.ret[2]
                   /\ centrality_df' = r.ret[3]
                   /\ mensagens' = IF r.ret[1] = << >> THEN { "arquivos_nao_encontrados" } ELSE {}
                   /\ pc' = "sidebar"
                   /\ erro' = erro
    /\ UNCHANGED << arq_completa, arq_visualizacao, nx_scores, nx_estrito, posicoes, k_slider, metricas,
                    rankings, net, execucoes >>

\* Lines 57-60: the slider, min_value=5, max_value=20
Sidebar ==
    /\ pc = "sidebar"
    /\ \E k \in posicoes : k_slider' = k
    /\ pc' = "gate"
    /\ UNCHANGED << arq_completa, arq_visualizacao, nx_scores, nx_estrito, posicoes, cache, G_completo,
                    G_visualizacao, centrality_df, metricas, rankings, net, mensagens, erro,
                    execucoes, corpo, calculos >>

\* Python truth value of a graph variable: None and a graph with no nodes are false
Truthy(G) == G # << >> /\ Len(G[1].nodes) > 0

GateOpen == Truthy(G_completo) /\ Truthy(G_visualizacao) /\ centrality_df # << >>

\* Line 63 and the else branch of lines 164-165
Gate ==
    /\ pc = "gate"
    /\ IF GateOpen
       THEN /\ pc' = "tab_metricas"
            /\ mensagens' = mensagens
       ELSE /\ pc' = "done"
            /\ mensagens' = mensagens \cup { "grafo_nao_carregado" }
    /\ UNCHANGED << arq_completa, arq_visualizacao, nx_scores, nx_estrito, posicoes, cache, G_completo, G_visualizacao,
                    centrality_df, k_slider, metricas, rankings, net, erro,
                    execucoes, corpo, calculos >>

----------------------------------------------------------------------------
(* Lines 70-93: the structural metrics, in the order the script emits them. *)
(* Clustering and assortativity are emitted with values the model does not  *)
(* compute (<< >>).  nx.diameter raises NetworkXError on a graph that is    *)
(* not connected, and nothing catches it.                                   *)

FieldsBeforeDiameter == { "nodes", "edges", "density", "clustering", "assortativity" }

FieldsFromDiameter == { "diameter", "weak", "strong" }

MetricValue(g, f) ==
    CASE f = "nodes"    -> << number_of_nodes(g) >>
      [] f = "edges"    -> << number_of_edges(g) >>
      [] f = "density"  -> density(g)
      [] f = "diameter" -> << diameter(g) >>
      [] f = "weak"     -> << number_weakly_connected_components(g) >>
      [] f = "strong"   -> << number_strongly_connected_components(g) >>
      [] OTHER          -> << >>

DiameterRaises(g) == ~ is_connected(g)

TabMetricas ==
    /\ pc = "tab_metricas"
    /\ IF DiameterRaises(G_completo[1])
       THEN /\ metricas' = [ f \in FieldsBeforeDiameter |-> MetricValue(G_completo[1], f) ]
            /\ Abort("NetworkXError")
       ELSE /\ metricas' = [ f \in FieldsBeforeDiameter \cup FieldsFromDiameter |->
                                MetricValue(G_completo[1], f) ]
            /\ pc' = "tab_centralidade"
            /\ erro' = erro
    /\ UNCHANGED << arq_completa, arq_visualizacao, nx_scores, nx_estrito, posicoes, cache, G_completo, G_visualizacao,
                    centrality_df, k_slider, rankings, net, mensagens,
                    execucoes, corpo, calculos >>

----------------------------------------------------------------------------
(* Lines 95-116: centrality_df[['Jogador', m]].nlargest(k_slider, m)        *)

\* the projection df[['Jogador', m]]: rows << Jogador, score >>
Column(df, m) == [ i \in DOMAIN df |-> << df[i].Jogador, df[i][m] >> ]

RemoveAt(rows, i) == [ j \in 1..(Len(rows) - 1) |-> IF j < i THEN rows[j] ELSE rows[j + 1] ]

\* among the rows with the largest score, the latest one
LastLargest(rows) ==
    CHOOSE i \in DOMAIN rows :
        /\ \A j \in DOMAIN rows : FracLeq(rows[j][2], rows[i][2])
        /\ \A j \in DOMAIN rows : j > i => ~ FracEq(rows[j][2], rows[i][2])

\* keep = 'first': among the rows with the largest score, the earliest one
FirstLargest(rows) ==
    CHOOSE i \in DOMAIN rows :
        /\ \A j \in DOMAIN rows : FracLeq(rows[j][2], rows[i][2])
        /\ \A j \in DOMAIN rows : j < i => ~ FracEq(rows[j][2], rows[i][2])

RECURSIVE nlargest(_, _)
nlargest(rows, n) ==
    IF n <= 0 \/ rows = << >> THEN << >>
    ELSE LET i == FirstLargest(rows)
         IN  << rows[i] >> \o nlargest(RemoveAt(rows, i), n - 1)

TabCentralidade ==
    /\ pc = "tab_centralidade"
    /\ rankings' = [ m \in Range(Metrics) |-> nlargest(Column(centrality_df[1], m), k_slider) ]
    /\ pc' = "tab_rede"
    /\ UNCHANGED << arq_completa, arq_visualizacao, nx_scores, nx_estrito, posicoes, cache, G_completo, G_visualizacao,
                    centrality_df, k_slider, metricas, net, mensagens, erro,
                    execucoes, corpo, calculos >>

----------------------------------------------------------------------------
(* Lines 118-162: the pyvis network of the view graph                       *)

\* line 133: pd.Series(df.Eigenvector.values, index=df.Jogador).to_dict()
eigenvector_scores(df) ==
    [ j \in { df[i].Jogador : i \in DOMAIN df } |->
        df[CHOOSE i \in DOMAIN df : df[i].Jogador = j].Eigenvector ]

FracMax(S) == CHOOSE x \in S : \A y \in S : FracLeq(y, x)

\* line 134: max(eigenvector_scores.values()) if eigenvector_scores else 1.0
max_eigenvector(scores) ==
    IF DOMAIN scores = {} THEN Frac(1, 1)
    ELSE FracMax({ scores[j] : j \in DOMAIN scores })

\* line 140: eigenvector_scores.get(node, 0)
EigenvectorOf(scores, node) ==
    IF node \in DOMAIN scores THEN scores[node] ELSE Frac(0, 1)

\* line 139: G_completo.nodes[node] raises KeyError for a node the graph lacks;
\* .get('community', 0) covers only a missing attribute
CommunityRaises(full, node) == node \notin Range(full.nodes)

community_id(full, node) ==
    IF node \in DOMAIN full.community THEN full.community[node] ELSE 0

\* line 142
color(c) == palette[(c % Len(palette)) + 1]

\* line 143: eigenvector / max_eigenvector raises ZeroDivisionError on a zero maximum
SizeRaises(mx) == mx[1] = 0

size(e, mx) == Frac(10 * (e[2] * mx[1]) + 40 * (e[1] * mx[2]), e[2] * mx[1])

NodeRaises(full, mx, node) ==
    IF CommunityRaises(full, node) THEN "KeyError"
    ELSE IF SizeRaises(mx) THEN "ZeroDivisionError"
    ELSE ""

StyledNode(full, scores, mx, node) ==
    [ id        |-> node,
      community |-> community_id(full, node),
      color     |-> color(community_id(full, node)),
      size      |-> size(EigenvectorOf(scores, node), mx) ]

\* the for loop of lines 137-149: the exception of the first failing node ("" = none)
RenderRaises(full, df, view) ==
    LET mx == max_eigenvector(eigenvector_scores(df))
        failing == { i \in DOMAIN view.nodes : NodeRaises(full, mx, view.nodes[i]) # "" }
    IN  IF failing = {} THEN ""
        ELSE NodeRaises(full, mx, view.nodes[CHOOSE i \in failing : \A j \in failing : i <= j])

\* the styled nodes in view order
RenderNodes(full, df, view) ==
    LET scores == eigenvector_scores(df)
        mx == max_eigenvector(scores)
    IN  [ i \in DOMAIN view.nodes |-> StyledNode(full, scores, mx, view.nodes[i]) ]

TabRede ==
    /\ pc = "tab_rede"
    /\ LET exc == RenderRaises(G_completo[1], centrality_df[1], G_visualizacao[1])
       IN  IF exc # ""
           THEN /\ Abort(exc)
                /\ UNCHANGED << net, mensagens >>
           ELSE \E physics_enabled \in BOOLEAN, saved \in BOOLEAN :
                /\ net' = [ nodes   |-> RenderNodes(G_completo[1], centrality_df[1],
                                                    G_visualizacao[1]),
                            edges   |-> G_visualizacao[1].edges,
                            physics |-> physics_enabled,
                            html    |-> saved ]
                /\ mensagens' = IF saved THEN mensagens
                                ELSE mensagens \cup { "erro_grafo_interativo" }
                /\ pc' = "done"
                /\ erro' = erro
    /\ UNCHANGED << arq_completa, arq_visualizacao, nx_scores, nx_estrito, posicoes, cache, G_completo,
                    G_visualizacao, centrality_df, k_slider, metricas, rankings,
                    execucoes, corpo, calculos >>

----------------------------------------------------------------------------
(* A widget interaction or a reload: Streamlit runs the script again *)

Rerun ==
    /\ pc \in { "done", "aborted" }
    /\ execucoes < MaxRuns
    /\ execucoes' = execucoes + 1
    /\ pc' = "carregar"
    /\ RunReset
    /\ UNCHANGED << arq_completa, arq_visualizacao, nx_scores, nx_estrito, posicoes, cache, corpo, calculos >>

----------------------------------------------------------------------------
(* Inputs *)

Jogadores == << "A", "B", "C", "D", "E", "F", "G", "H" >>

Prefix(n) == SubSeq(Jogadores, 1, n)

\* the edges i -> i+1 along a node sequence
Chain(nodes) == { << nodes[i], nodes[i + 1] >> : i \in 1..(Len(nodes) - 1) }

File(estado, g) == [estado |-> estado, grafo |-> g]

Files(graphs) ==
    { File("missing", NoGraph), File("malformed", NoGraph) }
        \cup { File("ok", g) : g \in graphs }

\* the slider's range
SliderRange == k_min..k_max

FreshSession ==
    /\ pc = "carregar"
    /\ cache = << >>
    /\ execucoes = 1
    /\ corpo = 0
    /\ calculos = 0
    /\ G_completo = << >>
    /\ G_visualizacao = << >>
    /\ centrality_df = << >>
    /\ k_slider = 0
    /\ metricas = NoOutput
    /\ rankings = NoOutput
    /\ net = EmptyNet
    /\ mensagens = {}
    /\ erro = ""

Next ==
    \/ Carregar
    \/ Sidebar
    \/ Gate
    \/ TabMetricas
    \/ TabCentralidade
    \/ TabRede
    \/ Rerun

----------------------------------------------------------------------------
(* Spec: sessions over every state of the two files.  Full graphs: up to    *)
(* three players and any set of the candidate edges (both directions        *)
(* between A and B, a self-loop on A).  The eigenvector answer is           *)
(* normalised: its largest entry is positive.                               *)

CandidateEdges(nodes) ==
    { << "A", "B" >>, << "B", "A" >>, << "B", "C" >>, << "A", "C" >>, << "A", "A" >> }
        \cap (Range(nodes) \X Range(nodes))

FullGraphs ==
    UNION { { [ nodes     |-> Prefix(n),
                edges     |-> E,
                community |-> [ u \in Range(Prefix(n)) \ { "A" } |-> 9 ] ]
              : E \in SUBSET CandidateEdges(Prefix(n)) } : n \in 0..3 }

ViewGraphs ==
    { [ nodes |-> v, edges |-> Chain(v), community |-> << >> ]
        : v \in { << >>, << "A" >>, << "A", "B", "C" >>, << "A", "D" >> } }

NormalisedAnswers(g) ==
    { [ u \in Range(g.nodes) |-> IF u = top THEN MaxScore ELSE 0 ] : top \in Range(g.nodes) }
        \cup { [ u \in Range(g.nodes) |-> MaxScore ] }

Init ==
    /\ arq_completa \in Files(FullGraphs)
    /\ arq_visualizacao \in Files(ViewGraphs)
    /\ nx_scores \in NormalisedAnswers(arq_completa.grafo)
    /\ nx_estrito \in BOOLEAN
    /\ posicoes = { k_min, k_default, k_max }
    /\ FreshSession

Spec == Init /\ [][Next]_vars

----------------------------------------------------------------------------
(* SpecRank: sessions whose full graph is a chain of up to MaxRows players, *)
(* with every combination of low and high library scores and every slider   *)
(* position.                                                                *)

RankGraphs ==
    { [ nodes |-> Prefix(n), edges |-> Chain(Prefix(n)), community |-> << >> ] : n \in 0..MaxRows }

InitRank ==
    /\ arq_completa \in { File("ok", g) : g \in RankGraphs }
    /\ arq_visualizacao = File("ok", [ nodes |-> << "A" >>, edges |-> {}, community |-> << >> ])
    /\ nx_scores \in [ Range(arq_completa.grafo.nodes) -> { 0, MaxScore } ]
    /\ nx_estrito = FALSE  \* immaterial: every chain is connected
    /\ posicoes = SliderRange
    /\ FreshSession

SpecRank == InitRank /\ [][Next]_vars

----------------------------------------------------------------------------
(* SpecRender: sessions over one connected full graph of three players with *)
(* every assignment of community ids to A and B, every eigenvector column   *)
(* with entries in 0..MaxScore (the all-zero column included) and views of  *)
(* up to two of four players.                                               *)

CommunityIds == { -1, 0, 9 }

RenderFullGraphs ==
    UNION { { [ nodes |-> Prefix(3), edges |-> Chain(Prefix(3)), community |-> c ]
              : c \in [ S -> CommunityIds ] } : S \in SUBSET { "A", "B" } }

RenderViews ==
    { [ nodes |-> v, edges |-> Chain(v), community |-> << >> ]
        : v \in { << >> } \cup { << Jogadores[i] >> : i \in 1..4 }
                \cup { << Jogadores[q[1]], Jogadores[q[2]] >>
                         : q \in { r \in (1..4) \X (1..4) : r[1] < r[2] } } }

InitRender ==
    /\ arq_completa \in { File("ok", g) : g \in RenderFullGraphs }
    /\ arq_visualizacao \in { File("ok", v) : v \in RenderViews }
    /\ nx_scores \in [ Range(arq_completa.grafo.nodes) -> 0..MaxScore ]
    /\ nx_estrito = FALSE  \* immaterial: the full graph is connected
    /\ posicoes = { k_default }
    /\ FreshSession

SpecRender == InitRender /\ [][Next]_vars

----------------------------------------------------------------------------
(* Properties *)

BothRead == arq_completa.estado = "ok" /\ arq_visualizacao.estado = "ok"

RunEnded == pc \in { "done", "aborted" }

\* C1: when either graph source is missing or malformed, the run holds no
\* graph and no centrality table, emits no metric, no ranking and no render
\* node or edge, and the centrality computation is never entered.
C1_NoPartialResults ==
    ~ BothRead =>
        /\ G_completo = << >>
        /\ G_visualizacao = << >>
        /\ centrality_df = << >>
        /\ metricas = NoOutput
        /\ rankings = NoOutput
        /\ net = EmptyNet
        /\ calculos = 0
        /\ cache \in { << >>, << None3 >> }
        /\ pc \notin { "tab_metricas", "tab_centralidade", "tab_rede" }

\* a run that ended at the warning because only the view graph was missing
C1_Witness ==
    /\ arq_completa.estado = "ok"
    /\ number_of_nodes(arq_completa.grafo) = 3
    /\ arq_visualizacao.estado = "missing"
    /\ pc = "done"
    /\ corpo = 1
    /\ "grafo_nao_carregado" \in mensagens

\* C2: over any number of reruns the body of the cached load runs at most once.
C2_BodyRunsAtMostOnce == corpo <= 1

\* C3: on a full graph whose undirected projection is not connected, a run
\* that passed the gate still ends with the component counts and the four
\* rankings emitted, and not with the diameter's exception.
C3_DiameterFailureIsolated ==
    (RunEnded /\ GateOpen /\ ~ is_connected(G_completo[1])) =>
        /\ erro # "NetworkXError"
        /\ { "weak", "strong" } \subseteq DOMAIN metricas
        /\ DOMAIN rankings = Range(Metrics)

ExpectedCommunity(full, node) ==
    IF node \in Range(full.nodes) /\ node \in DOMAIN full.community
    THEN full.community[node] ELSE 0

\* C5: for every view node the community id defaults to 0 when the full graph
\* has no community for it or does not contain it: the render set is built
\* without a lookup failure and each color is palette[community_id mod 8].
C5_AbsentCommunityDefaults ==
    (RunEnded /\ GateOpen) =>
        /\ erro # "KeyError"
        /\ pc = "done" =>
              /\ Len(net.nodes) = Len(G_visualizacao[1].nodes)
              /\ \A i \in DOMAIN net.nodes :
                    net.nodes[i].color =
                        palette[(ExpectedCommunity(G_completo[1], net.nodes[i].id) % 8) + 1]

Min(a, b) == IF a <= b THEN a ELSE b

IndexIn(rows, r) == CHOOSE i \in DOMAIN rows : rows[i] = r

RankingOk(col, r, k) ==
    /\ Len(r) = Min(k, Len(col))
    /\ Len(r) <= k
    /\ \A i \in DOMAIN r : r[i] \in Range(col)
    /\ \A i \in 1..(Len(r) - 1) : FracLeq(r[i + 1][2], r[i][2])
    /\ \A i \in DOMAIN r : \A j \in DOMAIN r :
          (i < j /\ FracEq(r[i][2], r[j][2])) => IndexIn(col, r[i]) < IndexIn(col, r[j])

ScenarioABC ==
    /\ G_completo # << >>
    /\ G_completo[1].nodes = << "A", "B", "C" >>
    /\ G_completo[1].edges = { << "A", "B" >>, << "B", "C" >> }
    /\ "density" \in DOMAIN metricas

\* C7 (as stated): for nodes {A,B,C} and edges A->B, B->C the reported density
\* is 2/3.
C7_DensityTwoThirds ==
    ScenarioABC => 3 * metricas["density"][1] = 2 * metricas["density"][2]

\* C7 (amended): for nodes {A,B,C} and edges A->B, B->C the reported density
\* is 1/3, the density m / (n (n - 1)) of the directed full graph.
C7_DensityOneThird ==
    ScenarioABC => 3 * metricas["density"][1] = metricas["density"][2]

C7_Witness == ScenarioABC /\ metricas["density"] = Frac(2, 6)

\* C8: once both files are read, the load yields a centrality table with
\* exactly one row per node of the full graph.
C8_TableForEveryGraph ==
    (BothRead /\ pc # "carregar") =>
        /\ centrality_df # << >>
        /\ Len(centrality_df[1]) = number_of_nodes(arq_completa.grafo)
        /\ [ i \in DOMAIN centrality_df[1] |-> centrality_df[1][i].Jogador ]
              = arq_completa.grafo.nodes

\* C9: every Degree entry of the table is degree / (n - 1) for n >= 2 and 0
\* for n < 2, and lies in [0, 1].
C9_DegreeInUnitRange ==
    centrality_df # << >> =>
        \A i \in DOMAIN centrality_df[1] :
            LET d == centrality_df[1][i].Degree
                g == G_completo[1]
            IN  /\ FracLeq(Frac(0, 1), d)
                /\ FracLeq(d, Frac(1, 1))
                /\ IF number_of_nodes(g) >= 2
                   THEN FracEq(d, Frac(GraphDegree(g, g.nodes[i]), number_of_nodes(g) - 1))
                   ELSE FracEq(d, Frac(0, 1))

\* C10: when both files are read without error the run reaches the analytics
\* branch, emits the metrics' first fields at least, and never shows the
\* 'graph could not be loaded' warning.
C10_ReadGraphsReachAnalytics ==
    (BothRead /\ centrality_df # << >> /\ RunEnded) =>
        /\ "grafo_nao_carregado" \notin mensagens
        /\ "nodes" \in DOMAIN metricas

====
